---- MODULE Spec2Model ----
(***************************************************************************)
(* Model of src/main.py: the validated fields (Field, Phone, Birthday),    *)
(* the contact Record and the AddressBook directory with its paginated    *)
(* iterator, search and JSON persistence.                                  *)
(*                                                                         *)
(* Strings are sequences of Unicode code points, so that len(), isdigit(), *)
(* lower() and the `in` substring test are computed and not assumed.       *)
(* A Python value is a record [t, s, n]: t is the type tag, s the code     *)
(* points of a str, n the number of an int.                                *)
(***************************************************************************)
EXTENDS Integers, Sequences, FiniteSets, TLC

VARIABLES
    field,      \* SpecPhone: the Phone objects, each NoObject or its stored _Phone__value
    pop,        \* SpecPhone: the last construction/assignment and its outcome
    phones,     \* SpecRecord: Record.phones, the stored values in list order
    rop,        \* SpecRecord: the last Record call, its arguments and outcome
    birthday,   \* SpecBirthday: Record.birthday's stored value ("" or a date)
    bop,        \* SpecBirthday: the last birthday call, its input and outcome
    data,       \* SpecDir/SpecPage: AddressBook.data, entries in insertion order
    rpp,        \* AddressBook.records_per_page
    file,       \* SpecDir: the contents of address_book.json
    fresh,      \* SpecDir: a second AddressBook() that only ever loads the file
    dop,        \* SpecDir/SpecPage: the last directory call and its outcome
    gen         \* SpecPage: the generator object last returned by iterator()

vars == <<field, pop, phones, rop, birthday, bop, data, rpp, file, fresh, dop, gen>>

-----------------------------------------------------------------------------
(* Bounds of the model *)

NumFields == 2       \* Phone objects of SpecPhone
MaxPhones == 3       \* longest phone list add_phone may build
MaxBatch == 2        \* largest explicit batch_size

(* Program constants *)

PhoneLen == 10
DefaultRecordsPerPage == 3

-----------------------------------------------------------------------------
(* Python values *)

Str(s) == [t |-> "str", s |-> s, n |-> 0]
IntV(n) == [t |-> "int", s |-> <<>>, n |-> n]
None == [t |-> "none", s |-> <<>>, n |-> 0]
EmptyStr == Str(<<>>)

\* bool(value): a str is true when non-empty, an int when non-zero, None never
Truthy(v) == CASE v.t = "str" -> v.s # <<>>
               [] v.t = "int" -> v.n # 0
               [] OTHER -> FALSE

\* str.isdigit() for one character: the ASCII digits, and also the characters
\* Unicode classes as digits without being decimal (superscript 2, 3, 1)
AsciiDigits == 48..57
SuperscriptDigits == {178, 179, 185}
IsDigitChar(c) == c \in AsciiDigits \/ c \in SuperscriptDigits

\* str.isdigit(): every character is a digit and there is at least one
isdigit(s) == Len(s) > 0 /\ \A i \in 1..Len(s) : IsDigitChar(s[i])

\* str.lower() on the characters of the model: A-Z map to a-z
LowerChar(c) == IF c \in 65..90 THEN c + 32 ELSE c
lower(s) == [i \in 1..Len(s) |-> LowerChar(s[i])]

\* a in b, for two str
IsSubstring(a, b) ==
    \E i \in 0..(Len(b) - Len(a)) : SubSeq(b, i + 1, i + Len(a)) = a

-----------------------------------------------------------------------------
(* Phone: the value setter, lines 45-53 *)

\* Result of assigning v to a Phone whose stored value is old
PhoneSetter(old, v) ==
    IF Truthy(v)
    THEN IF v.t = "str" /\ Len(v.s) = PhoneLen /\ isdigit(v.s)
         THEN [value |-> v, err |-> "none"]
         ELSE [value |-> old, err |-> "ValueError"]
    ELSE [value |-> EmptyStr, err |-> "none"]

NoObject == [t |-> "noobject", s |-> <<>>, n |-> 0]

\* Some strings of the model
N1234567890 == Str(<<49, 50, 51, 52, 53, 54, 55, 56, 57, 48>>)
N1112223333 == Str(<<49, 49, 49, 50, 50, 50, 51, 51, 51, 51>>)
N9876543210 == Str(<<57, 56, 55, 54, 53, 52, 51, 50, 49, 48>>)
N3333333333 == Str(<<51, 51, 51, 51, 51, 51, 51, 51, 51, 51>>)
N4444444444 == Str(<<52, 52, 52, 52, 52, 52, 52, 52, 52, 52>>)
N5555555555 == Str(<<53, 53, 53, 53, 53, 53, 53, 53, 53, 53>>)
Superscripts == Str(<<178, 178, 178, 178, 178, 178, 178, 178, 178, 178>>)
Short12345 == Str(<<49, 50, 51, 52, 53>>)
Letters == Str(<<49, 50, 51, 52, 53, 54, 55, 56, 57, 97>>)

\* Values handed to Phone(...) and to the setter
AssignPool == {EmptyStr, N1234567890, N1112223333, Superscripts, Short12345,
               Letters, None, IntV(0), IntV(1234567890)}

\* Phone(value): Field.__init__ runs the setter; a raise leaves no object
PhoneInit(i, v) ==
    LET r == PhoneSetter(NoObject, v) IN
    /\ field[i] = NoObject
    /\ field' = [field EXCEPT ![i] = IF r.err = "none" THEN r.value ELSE NoObject]
    /\ pop' = [op |-> "init", obj |-> i, arg |-> v, err |-> r.err]
    /\ UNCHANGED <<phones, rop, birthday, bop, data, rpp, file, fresh, dop, gen>>

\* phone.value = v on an existing object
PhoneAssign(i, v) ==
    LET r == PhoneSetter(field[i], v) IN
    /\ field[i] # NoObject
    /\ field' = [field EXCEPT ![i] = r.value]
    /\ pop' = [op |-> "set", obj |-> i, arg |-> v, err |-> r.err]
    /\ UNCHANGED <<phones, rop, birthday, bop, data, rpp, file, fresh, dop, gen>>

-----------------------------------------------------------------------------
(* Record: the phone list, lines 100-126 *)

\* Numbers handed to the Record methods: strings, well formed or not
NumberPool == {EmptyStr, N1234567890, N1112223333, Superscripts, Short12345}

\* Initial phone lists handed to Record(name, phones): none, one or two numbers
InitLists == {<<>>} \cup {<<a>> : a \in NumberPool}
                   \cup {<<a, b>> : a \in NumberPool, b \in NumberPool}

\* [Phone(phone) for phone in (phones or [])]: the first raise aborts the
\* construction of the Record
RECURSIVE MakePhones(_)
MakePhones(ps) ==
    IF ps = <<>> THEN [phones |-> <<>>, err |-> "none"]
    ELSE LET r == PhoneSetter(NoObject, Head(ps))
             rest == MakePhones(Tail(ps))
         IN IF r.err # "none" THEN [phones |-> <<>>, err |-> r.err]
            ELSE IF rest.err # "none" THEN rest
            ELSE [phones |-> <<r.value>> \o rest.phones, err |-> "none"]

\* map(lambda item: item.value, self.phones)
Values(phs) == {phs[i] : i \in 1..Len(phs)}

\* add_phone: append Phone(phone) unless a phone already has that value
add_phone(phs, p) ==
    IF p \notin Values(phs)
    THEN LET r == PhoneSetter(NoObject, p) IN
         IF r.err = "none" THEN [phones |-> Append(phs, r.value), err |-> "none"]
         ELSE [phones |-> phs, err |-> r.err]
    ELSE [phones |-> phs, err |-> "none"]

\* remove_phone: keep the items whose value differs from phone
remove_phone(phs, p) ==
    [phones |-> SelectSeq(phs, LAMBDA x : x # p), err |-> "none"]

\* Index of the first item whose value equals p, 0 when there is none
FirstIndex(phs, p) ==
    IF p \in Values(phs)
    THEN CHOOSE i \in 1..Len(phs) : phs[i] = p /\ \A j \in 1..(i - 1) : phs[j] # p
    ELSE 0

LastIndex(phs, p) ==
    IF p \in Values(phs)
    THEN CHOOSE i \in 1..Len(phs) : phs[i] = p /\ \A j \in (i + 1)..Len(phs) : phs[j] # p
    ELSE 0

\* edit_phone: assign new_phone to the first item equal to old_phone
edit_phone_Last(phs, o, n) ==
    LET i == LastIndex(phs, o) IN
    IF i = 0 THEN [phones |-> phs, err |-> "NotFound"]
    ELSE LET r == PhoneSetter(phs[i], n) IN
         [phones |-> [phs EXCEPT ![i] = r.value],
          err |-> IF r.err = "none" THEN "none" ELSE "InvalidFormat"]

edit_phone_SetThenValidate(phs, o, n) ==
    LET i == FirstIndex(phs, o) IN
    IF i = 0 THEN [phones |-> phs, err |-> "NotFound"]
    ELSE LET r == PhoneSetter(phs[i], n) IN
         [phones |-> [phs EXCEPT ![i] = IF r.err = "none" THEN r.value ELSE n],
          err |-> IF r.err = "none" THEN "none" ELSE "InvalidFormat"]

\* The two ValueErrors of edit_phone differ in their message: "Phone number
\* not found." (NotFound) and "Invalid phone number format." (InvalidFormat)
edit_phone(phs, o, n) ==
    LET i == FirstIndex(phs, o) IN
    IF i = 0 THEN [phones |-> phs, err |-> "NotFound"]
    ELSE LET r == PhoneSetter(phs[i], n) IN
         [phones |-> [phs EXCEPT ![i] = r.value],
          err |-> IF r.err = "none" THEN "none" ELSE "InvalidFormat"]

\* find_phone: the position of the first item equal to phone, 0 for None
find_phone(phs, p) == FirstIndex(phs, p)

Call(op, a, b, init, err, ret) ==
    [op |-> op, a |-> a, b |-> b, init |-> init, err |-> err, ret |-> ret]

NoCall == Call("none", None, None, <<>>, "none", 0)

RestOfRecord == <<field, pop, birthday, bop, data, rpp, file, fresh, dop, gen>>

\* record = Record(name, ps): a raise leaves the previous record in place
RecordNew(ps) ==
    LET r == MakePhones(ps) IN
    /\ phones' = IF r.err = "none" THEN r.phones ELSE phones
    /\ rop' = Call("new", None, None, ps, IF r.err = "none" THEN "none" ELSE "InvalidFormat", 0)
    /\ UNCHANGED RestOfRecord

AddPhone(p) ==
    LET r == add_phone(phones, p) IN
    /\ Len(phones) < MaxPhones
    /\ phones' = r.phones
    /\ rop' = Call("add", p, None, <<>>, IF r.err = "none" THEN "none" ELSE "InvalidFormat", 0)
    /\ UNCHANGED RestOfRecord

RemovePhone(p) ==
    LET r == remove_phone(phones, p) IN
    /\ phones' = r.phones
    /\ rop' = Call("remove", p, None, <<>>, r.err, 0)
    /\ UNCHANGED RestOfRecord

EditPhone(o, n) ==
    LET r == edit_phone(phones, o, n) IN
    /\ phones' = r.phones
    /\ rop' = Call("edit", o, n, <<>>, r.err, 0)
    /\ UNCHANGED RestOfRecord

FindPhone(p) ==
    /\ rop' = Call("find", p, None, <<>>, "none", find_phone(phones, p))
    /\ UNCHANGED phones
    /\ UNCHANGED RestOfRecord

-----------------------------------------------------------------------------
(* Birthday and days_to_birthday, lines 62-96 and 129-144 *)

\* A date; NoDate stands for the "" a Birthday stores when it is unset
Date(d, m, y) == [set |-> TRUE, d |-> d, m |-> m, y |-> y]
NoDate == [set |-> FALSE, d |-> 0, m |-> 0, y |-> 0]

IsLeap(y) == (y % 4 = 0 /\ y % 100 # 0) \/ y % 400 = 0

DaysInMonth(m, y) ==
    CASE m \in {4, 6, 9, 11} -> 30
      [] m = 2 -> IF IsLeap(y) THEN 29 ELSE 28
      [] OTHER -> 31

ValidDate(d, m, y) ==
    /\ m \in 1..12
    /\ y \in 1..9999
    /\ d \in 1..DaysInMonth(m, y)

\* A birthday text: "" (empty), a text of the shape DD.MM.YYYY with the three
\* numbers read from it, or a text of another shape (shaped = FALSE)
BText(d, m, y) == [empty |-> FALSE, shaped |-> TRUE, d |-> d, m |-> m, y |-> y]
EmptyText == [empty |-> TRUE, shaped |-> FALSE, d |-> 0, m |-> 0, y |-> 0]
Garbage == [empty |-> FALSE, shaped |-> FALSE, d |-> 0, m |-> 0, y |-> 0]

\* datetime.strptime(value, "%d.%m.%Y").date(): ValueError unless the text has
\* the shape and names a day of the calendar
strptime(txt) ==
    IF txt.shaped /\ ValidDate(txt.d, txt.m, txt.y)
    THEN [value |-> Date(txt.d, txt.m, txt.y), err |-> "none"]
    ELSE [value |-> NoDate, err |-> "ValueError"]

\* Birthday.value setter, lines 71-79
BirthdaySetter(old, txt) ==
    IF ~txt.empty
    THEN LET r == strptime(txt) IN
         IF r.err = "none" THEN r ELSE [value |-> old, err |-> "ValueError"]
    ELSE [value |-> NoDate, err |-> "none"]

\* Birthday.__str__: strftime("%d.%m.%Y") of the stored date, "" when unset
BirthdayStr(b) == IF b.set THEN BText(b.d, b.m, b.y) ELSE EmptyText

IntResult(n) == [kind |-> "int", n |-> n, err |-> "none"]
NoneResult == [kind |-> "none", n |-> 0, err |-> "none"]
Raised(e) == [kind |-> "raise", n |-> 0, err |-> e]

\* date.replace(year=y): ValueError when the day does not exist in year y
ReplaceYear(b, y) ==
    IF ValidDate(b.d, b.m, y)
    THEN [value |-> Date(b.d, b.m, y), err |-> "none"]
    ELSE [value |-> NoDate, err |-> "ValueError"]

\* today > next_birthday_date, a datetime.datetime against a datetime.date:
\* Python orders the two types only by raising TypeError
DatetimeGtDate(now, target) == [value |-> FALSE, err |-> "TypeError"]

\* (next_birthday_date - today).days, a date minus a datetime: TypeError too
DateMinusDatetime(target, now) == Raised("TypeError")

RECURSIVE DaysBeforeYear(_)
DaysBeforeYear(y) ==
    IF y <= 2020 THEN 0
    ELSE DaysBeforeYear(y - 1) + (IF IsLeap(y - 1) THEN 366 ELSE 365)

RECURSIVE DaysBeforeMonth(_, _)
DaysBeforeMonth(m, y) ==
    IF m <= 1 THEN 0 ELSE DaysBeforeMonth(m - 1, y) + DaysInMonth(m - 1, y)

\* date.toordinal(), counted from 1 January 2020
Ordinal(d, m, y) == DaysBeforeYear(y) + DaysBeforeMonth(m, y) + d

\* days_to_birthday, lines 134-144; now is datetime.today()
days_to_birthday(b, now) ==
    IF b.set
    THEN LET this == ReplaceYear(b, now.y) IN
         IF this.err # "none" THEN Raised(this.err)
         ELSE LET gt == DatetimeGtDate(now, this.value) IN
              IF gt.err # "none" THEN Raised(gt.err)
              ELSE LET next == IF gt.value THEN ReplaceYear(this.value, now.y + 1)
                                           ELSE this
                   IN IF next.err # "none" THEN Raised(next.err)
                      ELSE DateMinusDatetime(next.value, now)
    ELSE NoneResult

BirthdayTexts == {EmptyText, Garbage, BText(18, 2, 1990), BText(29, 2, 2000),
                  BText(31, 12, 1999), BText(31, 2, 2001)}

\* Values of datetime.today(): a day and the hour of the day
Todays == [d : {1, 17, 18, 19, 28, 31}, m : {1, 2, 12}, y : {2023, 2024}, h : {0, 12}]
             \cup [d : {29}, m : {2}, y : {2024}, h : {0, 12}]

BCall(op, txt, now, res) == [op |-> op, txt |-> txt, now |-> now, res |-> res]
NoTime == [d |-> 0, m |-> 0, y |-> 0, h |-> 0]
NoBCall == BCall("none", EmptyText, NoTime, NoneResult)

RestOfBirthday == <<field, pop, phones, rop, data, rpp, file, fresh, dop, gen>>

\* set_birthday, lines 129-131
SetBirthday(txt) ==
    LET r == BirthdaySetter(birthday, txt) IN
    /\ birthday' = r.value
    /\ bop' = BCall("set", txt, NoTime,
                    IF r.err = "none" THEN NoneResult ELSE Raised(r.err))
    /\ UNCHANGED RestOfBirthday

DaysToBirthday(now) ==
    /\ ValidDate(now.d, now.m, now.y)
    /\ bop' = BCall("days", EmptyText, now, days_to_birthday(birthday, now))
    /\ UNCHANGED birthday
    /\ UNCHANGED RestOfBirthday

-----------------------------------------------------------------------------
(* The Record objects a script has built, lines 100-103 and 216-228 *)

NameJohn == <<74, 111, 104, 110>>
NameJane == <<74, 97, 110, 101>>
NameBob == <<66, 111, 98>>

\* Record(name, phones, birthday); the arguments used below are all accepted
RecordInit(name, ps, txt) ==
    [name |-> name,
     phones |-> MakePhones(ps).phones,
     birthday |-> BirthdaySetter(NoDate, txt).value]

\* Objects 1 and 2 are john_record and jane_record of main(); object 4 is a
\* second Record named John, with other phones and birthday
RecordIds == 1..4

RecordObj(id) ==
    CASE id = 1 -> LET r == RecordInit(NameJohn, <<N3333333333, N4444444444>>,
                                       BText(18, 2, 1990))
                   IN [r EXCEPT !.phones =
                          add_phone(add_phone(r.phones, N1234567890).phones,
                                    N5555555555).phones]
      [] id = 2 -> LET r == RecordInit(NameJane, <<>>, EmptyText)
                   IN [r EXCEPT !.phones = add_phone(r.phones, N9876543210).phones,
                                !.birthday = BirthdaySetter(r.birthday,
                                                            BText(11, 3, 1970)).value]
      [] id = 3 -> RecordInit(NameBob, <<N1112223333>>, BText(31, 12, 1999))
      [] OTHER -> RecordInit(NameJohn, <<N1112223333>>, BText(29, 2, 2000))

-----------------------------------------------------------------------------
(* AddressBook, lines 152-208: data is the dict, as its items in insertion *)
(* order; an item is [key, obj], obj the identity of the Record            *)

Keys(d) == {d[k].key : k \in 1..Len(d)}

\* list(self.data.values())
ValuesOf(d) == [k \in 1..Len(d) |-> d[k].obj]

\* self.data.get(name, default): the object stored under name, 0 for the default
Get(d, name) ==
    IF name \in Keys(d) THEN (CHOOSE k \in 1..Len(d) : d[k].key = name) ELSE 0

\* add_record: insert under record.name.value unless get() returns a record
add_record_Overwrite(d, id) ==
    LET name == RecordObj(id).name
        k == Get(d, name)
    IN IF k = 0 THEN Append(d, [key |-> name, obj |-> id])
       ELSE [d EXCEPT ![k] = [key |-> name, obj |-> id]]

add_record(d, id) ==
    LET name == RecordObj(id).name IN
    IF Get(d, name) = 0 THEN Append(d, [key |-> name, obj |-> id]) ELSE d

\* find: the record stored under name, <<>> standing for None
find(d, name) == IF Get(d, name) = 0 THEN <<>> ELSE <<d[Get(d, name)].obj>>

\* delete: self.data.pop(name, None)
delete(d, name) == SelectSeq(d, LAMBDA e : e.key # name)

\* search, lines 202-208
search_CaseSensitiveName(d, term) ==
    LET t == lower(term)
        hit(id) == \/ IsSubstring(t, RecordObj(id).name)
                   \/ \E k \in 1..Len(RecordObj(id).phones) :
                         IsSubstring(t, RecordObj(id).phones[k].s)
    IN SelectSeq(ValuesOf(d), hit)

search(d, term) ==
    LET t == lower(term)
        hit(id) == \/ IsSubstring(t, lower(RecordObj(id).name))
                   \/ \E k \in 1..Len(RecordObj(id).phones) :
                         IsSubstring(t, RecordObj(id).phones[k].s)
    IN SelectSeq(ValuesOf(d), hit)

\* What a saved or loaded record holds: name, phone strings, birthday string
Contents(d) ==
    [k \in 1..Len(d) |->
        [name |-> d[k].key,
         phones |-> RecordObj(d[k].obj).phones,
         birthday |-> BirthdayStr(RecordObj(d[k].obj).birthday)]]

NoFile == [exists |-> FALSE, complete |-> FALSE, rpp |-> 0, cur |-> 0, data |-> <<>>]

\* save_to_file, lines 181-188: open(filename, 'w') empties the file, then
\* json.dump writes the text piece by piece.  record.__dict__ maps "name" to a
\* Name object, which json cannot encode: with a record in the directory the
\* dump raises TypeError after writing the settings, and the file stays cut
\* off inside the first record
save_to_file(d, r) ==
    IF Len(d) = 0
    THEN [file |-> [exists |-> TRUE, complete |-> TRUE, rpp |-> r, cur |-> 0, data |-> <<>>],
          err |-> "none"]
    ELSE [file |-> [exists |-> TRUE, complete |-> FALSE, rpp |-> r, cur |-> 0, data |-> <<>>],
          err |-> "TypeError"]

\* load_from_file, lines 191-199, on a book holding items d and setting r: a
\* missing file (FileNotFoundError) and a cut-off file (JSONDecodeError) are
\* swallowed and change nothing; a complete file never holds a record (see
\* save_to_file), so Record(**record_data) builds no object and the loaded
\* dict is the file's empty one
load_from_file(d, r, f) ==
    IF f.exists /\ f.complete
    THEN [data |-> f.data, rpp |-> f.rpp]
    ELSE [data |-> d, rpp |-> r]

\* The generator of iterator(), lines 174-178.  arg is the batch_size argument;
\* batch_size, records and i are its locals, unset until the body first runs;
\* out is the list of batches it has yielded
NoGen == [st |-> "none", arg |-> None, batch_size |-> 0, records |-> <<>>,
          i |-> 0, out |-> <<>>]

NewGen(arg) == [NoGen EXCEPT !.st = "created", !.arg = arg]

\* records[i:i + batch_size]
Slice(recs, i, b) ==
    SubSeq(recs, i + 1, IF i + b < Len(recs) THEN i + b ELSE Len(recs))

\* next(generator), with the directory d and the setting r as they are now
Resume_Live(g, d, r) ==
    IF g.st = "created"
    THEN LET b == IF Truthy(g.arg) THEN g.arg.n ELSE r
             recs == ValuesOf(d)
         IN IF 0 < Len(recs)
            THEN [g EXCEPT !.st = "suspended", !.batch_size = b, !.records = recs,
                           !.i = 0, !.out = <<Slice(recs, 0, b)>>]
            ELSE [g EXCEPT !.st = "done", !.batch_size = b, !.records = recs]
    ELSE LET i == g.i + g.batch_size IN
         IF i < Len(g.records)
         THEN [g EXCEPT !.i = i,
                        !.out = Append(g.out, Slice(ValuesOf(d), i, g.batch_size))]
         ELSE [g EXCEPT !.st = "done"]

Resume_DropPartial(g, d, r) ==
    IF g.st = "created"
    THEN LET b == IF Truthy(g.arg) THEN g.arg.n ELSE r
             recs == ValuesOf(d)
         IN IF b <= Len(recs)
            THEN [g EXCEPT !.st = "suspended", !.batch_size = b, !.records = recs,
                           !.i = 0, !.out = <<Slice(recs, 0, b)>>]
            ELSE [g EXCEPT !.st = "done", !.batch_size = b, !.records = recs]
    ELSE LET i == g.i + g.batch_size IN
         IF i + g.batch_size <= Len(g.records)
         THEN [g EXCEPT !.i = i,
                        !.out = Append(g.out, Slice(g.records, i, g.batch_size))]
         ELSE [g EXCEPT !.st = "done"]

Resume(g, d, r) ==
    IF g.st = "created"
    THEN LET b == IF Truthy(g.arg) THEN g.arg.n ELSE r
             recs == ValuesOf(d)
         IN IF 0 < Len(recs)
            THEN [g EXCEPT !.st = "suspended", !.batch_size = b, !.records = recs,
                           !.i = 0, !.out = <<Slice(recs, 0, b)>>]
            ELSE [g EXCEPT !.st = "done", !.batch_size = b, !.records = recs]
    ELSE LET i == g.i + g.batch_size IN
         IF i < Len(g.records)
         THEN [g EXCEPT !.i = i,
                        !.out = Append(g.out, Slice(g.records, i, g.batch_size))]
         ELSE [g EXCEPT !.st = "done"]

DCall(op, obj, key, term, err, ret) ==
    [op |-> op, obj |-> obj, key |-> key, term |-> term, err |-> err, ret |-> ret]
NoDCall == DCall("none", 0, <<>>, <<>>, "none", <<>>)

NoBook == [made |-> FALSE, data |-> <<>>, rpp |-> 0]

Names == {NameJohn, NameJane, NameBob}

TermJohnLower == <<106, 111, 104, 110>>
TermJohnUpper == <<74, 79, 72, 78>>
Term987 == <<57, 56, 55>>
Term333 == <<51, 51, 51>>
TermAN == <<65, 78>>
TermX == <<120>>
Terms == {TermJohnLower, TermJohnUpper, Term987, Term333, TermAN, TermX, <<>>}

BatchArgs == {None} \cup {IntV(n) : n \in 0..MaxBatch}

RestOfBook == <<field, pop, phones, rop, birthday, bop>>

AddRecord(id) ==
    /\ data' = add_record(data, id)
    /\ dop' = DCall("add", id, RecordObj(id).name, <<>>, "none", <<>>)
    /\ UNCHANGED <<rpp, file, fresh, gen>>
    /\ UNCHANGED RestOfBook

Find(name) ==
    /\ dop' = DCall("find", 0, name, <<>>, "none", find(data, name))
    /\ UNCHANGED <<data, rpp, file, fresh, gen>>
    /\ UNCHANGED RestOfBook

Delete(name) ==
    /\ data' = delete(data, name)
    /\ dop' = DCall("delete", 0, name, <<>>, "none", <<>>)
    /\ UNCHANGED <<rpp, file, fresh, gen>>
    /\ UNCHANGED RestOfBook

Search(term) ==
    /\ dop' = DCall("search", 0, <<>>, term, "none", search(data, term))
    /\ UNCHANGED <<data, rpp, file, fresh, gen>>
    /\ UNCHANGED RestOfBook

SaveToFile ==
    LET r == save_to_file(data, rpp) IN
    /\ file' = r.file
    /\ dop' = DCall("save", 0, <<>>, <<>>, r.err, <<>>)
    /\ UNCHANGED <<data, rpp, fresh, gen>>
    /\ UNCHANGED RestOfBook

\* book.load_from_file()
LoadFromFile ==
    LET r == load_from_file(data, rpp, file) IN
    /\ data' = r.data
    /\ rpp' = r.rpp
    /\ dop' = DCall("load", 0, <<>>, <<>>, "none", <<>>)
    /\ UNCHANGED <<file, fresh, gen>>
    /\ UNCHANGED RestOfBook

\* other = AddressBook(); other.load_from_file()
LoadFresh ==
    LET r == load_from_file(<<>>, DefaultRecordsPerPage, file) IN
    /\ fresh' = [made |-> TRUE, data |-> r.data, rpp |-> r.rpp]
    /\ dop' = DCall("loadfresh", 0, <<>>, <<>>, "none", <<>>)
    /\ UNCHANGED <<data, rpp, file, gen>>
    /\ UNCHANGED RestOfBook

\* gen = book.iterator(batch_size): no line of the body runs yet
Iterator(arg) ==
    /\ gen' = NewGen(arg)
    /\ dop' = DCall("iterator", 0, <<>>, <<>>, "none", <<>>)
    /\ UNCHANGED <<data, rpp, file, fresh>>
    /\ UNCHANGED RestOfBook

\* next(gen) on a generator that has not finished
NextBatch ==
    /\ gen.st \in {"created", "suspended"}
    /\ gen' = Resume(gen, data, rpp)
    /\ dop' = DCall("next", 0, <<>>, <<>>,
                    IF gen'.st = "done" THEN "StopIteration" ELSE "none", <<>>)
    /\ UNCHANGED <<data, rpp, file, fresh>>
    /\ UNCHANGED RestOfBook

-----------------------------------------------------------------------------
(* Claims about the Phone field and the Record's phone list *)

\* The format the specification gives a phone: "" or exactly 10 decimal digits
WellFormedPhone(v) ==
    \/ v = EmptyStr
    \/ /\ v.t = "str"
       /\ Len(v.s) = PhoneLen
       /\ \A i \in 1..Len(v.s) : v.s[i] \in AsciiDigits

NoDuplicates(phs) ==
    \A i \in 1..Len(phs), j \in 1..Len(phs) : i # j => phs[i] # phs[j]

\* C10: every stored Phone value is "" or a string of exactly 10 decimal
\* digits; assigning any other value raises a validation error, coerces
\* nothing and leaves the stored values as they were.
C10_PhoneAlwaysWellFormed ==
    [][ /\ \A i \in 1..NumFields : field'[i] # NoObject => WellFormedPhone(field'[i])
        /\ (pop'.op \in {"init", "set"} /\ ~WellFormedPhone(pop'.arg))
              => (pop'.err = "ValueError" /\ field' = field) ]_vars

\* C1: after any sequence of Record(...), add_phone, remove_phone and
\* edit_phone calls no two entries of the phone list hold the same value.
C1_NoDuplicatePhones == NoDuplicates(phones)

JohnBefore == <<N3333333333, N4444444444, N1234567890, N5555555555>>
JohnAfter == <<N3333333333, N4444444444, N1112223333, N5555555555>>

\* C6: a successful edit_phone(old, new) puts new at the index of the first
\* phone equal to old and changes nothing else: same length, every other entry
\* at its place; John's list 3333333333; 4444444444; 1234567890; 5555555555
\* becomes 3333333333; 4444444444; 1112223333; 5555555555.
C6_EditReplacesInPlace ==
    /\ edit_phone(JohnBefore, N1234567890, N1112223333)
          = [phones |-> JohnAfter, err |-> "none"]
    /\ [][ (rop'.op = "edit" /\ rop'.err = "none") =>
             \E i \in 1..Len(phones) :
                /\ phones[i] = rop'.a
                /\ \A j \in 1..(i - 1) : phones[j] # rop'.a
                /\ Len(phones') = Len(phones)
                /\ phones'[i] = rop'.b
                /\ \A j \in 1..Len(phones) : j # i => phones'[j] = phones[j] ]_vars

\* A successful edit of the first of two equal phones, in the middle of the list
C6_Witness ==
    /\ rop.op = "edit"
    /\ rop.err = "none"
    /\ rop.a # rop.b
    /\ Len(phones) = 3
    /\ phones[2] = rop.b
    /\ phones[3] = rop.a
    /\ phones[1] # rop.a

\* The next day of month b.m, day b.d on or after the day `now`
NextOccurrence(b, now) ==
    LET y == CHOOSE y \in now.y..(now.y + 8) :
                 /\ ValidDate(b.d, b.m, y)
                 /\ Ordinal(b.d, b.m, y) >= Ordinal(now.d, now.m, now.y)
                 /\ \A z \in now.y..(y - 1) :
                       ~(ValidDate(b.d, b.m, z)
                         /\ Ordinal(b.d, b.m, z) >= Ordinal(now.d, now.m, now.y))
    IN Date(b.d, b.m, y)

\* C3: with a birthday set, days_to_birthday returns the integer number of
\* days from today to the next occurrence of the birthday's month/day, which
\* is >= 0 and exactly 0 on the birthday itself; with no birthday set it
\* returns the unset sentinel without error.
C3_DaysToNextBirthday ==
    bop.op = "days" =>
       IF birthday.set
       THEN LET next == NextOccurrence(birthday, bop.now) IN
            /\ bop.res.kind = "int"
            /\ bop.res.n = Ordinal(next.d, next.m, next.y)
                             - Ordinal(bop.now.d, bop.now.m, bop.now.y)
            /\ bop.res.n >= 0
            /\ (birthday.d = bop.now.d /\ birthday.m = bop.now.m) => bop.res.n = 0
       ELSE bop.res = NoneResult

-----------------------------------------------------------------------------
(* Claims about the directory *)

\* C2: add_record of a record whose name is already a key changes nothing: the
\* name still maps to the record object it mapped to, every other entry is as
\* it was, and no error is raised; with no such key the record is inserted
\* under its name, after the existing entries.
C2_AddExistingIsNoOp ==
    [][ dop'.op = "add" =>
          LET id == dop'.obj
              name == RecordObj(id).name
              present == \E k \in 1..Len(data) : data[k].key = name
          IN /\ dop'.err = "none"
             /\ present => data' = data
             /\ ~present => data' = Append(data, [key |-> name, obj |-> id]) ]_vars

\* The second John was handed to add_record while the first one was stored
C2_Witness ==
    /\ dop.op = "add"
    /\ dop.obj = 4
    /\ Len(data) >= 2
    /\ \E k \in 1..Len(data) : data[k] = [key |-> NameJohn, obj |-> 1]

\* C4: saving the directory and then loading the file into a fresh directory
\* reproduces every record (names, phones in order, birthday strings) and the
\* records-per-page setting.
C4_SaveLoadRoundTrip ==
    [][ (dop.op = "save" /\ dop'.op = "loadfresh") =>
          /\ fresh'.made
          /\ Contents(fresh'.data) = Contents(data)
          /\ fresh'.rpp = rpp ]_vars

\* The records the claim of search names: the lower-cased term in the
\* lower-cased name, or the term as given in one of the phone values
ClaimedMatch(term, id) ==
    \/ IsSubstring(lower(term), lower(RecordObj(id).name))
    \/ \E k \in 1..Len(RecordObj(id).phones) :
          IsSubstring(term, RecordObj(id).phones[k].s)

\* C9: search(term) returns exactly the matching records, each once, in
\* insertion order.
C9_SearchExact ==
    dop.op = "search" =>
       dop.ret = SelectSeq(ValuesOf(data), LAMBDA id : ClaimedMatch(dop.term, id))

\* search("JOHN") has returned John alone from a directory that also holds Jane
C9_Witness ==
    /\ dop.op = "search"
    /\ dop.term = TermJohnUpper
    /\ dop.ret = <<1>>
    /\ NameJane \in Keys(data)
    /\ Len(data) >= 3

RECURSIVE Concat(_)
Concat(batches) ==
    IF batches = <<>> THEN <<>> ELSE Head(batches) \o Concat(Tail(batches))

\* list(generator): resume until StopIteration
RECURSIVE Drain(_, _, _)
Drain(g, d, r) == IF g.st = "done" THEN g ELSE Drain(Resume(g, d, r), d, r)

FiveRecords == [k \in 1..5 |-> [key |-> <<48 + k>>, obj |-> k]]

\* C7: a finished generator has yielded ceil(n/b) batches whose concatenation
\* is the directory's records, in insertion order, as they were when the first
\* batch was asked for; every batch but the last has b records and the last
\* between 1 and b, b being the batch_size given (>= 1) or records_per_page;
\* 5 records with b = 2 give sizes 2, 2, 1.
C7_Batches ==
    /\ LET g == Drain(NewGen(IntV(2)), FiveRecords, DefaultRecordsPerPage) IN
       /\ [k \in 1..Len(g.out) |-> Len(g.out[k])] = <<2, 2, 1>>
       /\ Concat(g.out) = <<1, 2, 3, 4, 5>>
    /\ [](gen.st = "done" /\ (gen.arg = None \/ gen.arg.n >= 1) =>
            LET b == IF gen.arg = None THEN rpp ELSE gen.arg.n
                n == Len(gen.records)
                c == Len(gen.out)
            IN /\ c * b >= n
               /\ (c - 1) * b < n \/ (c = 0 /\ n = 0)
               /\ Concat(gen.out) = gen.records
               /\ \A k \in 1..(c - 1) : Len(gen.out[k]) = b
               /\ c > 0 => Len(gen.out[c]) \in 1..b)
    /\ [][ (gen.st = "created" /\ gen'.st \in {"suspended", "done"})
              => gen'.records = ValuesOf(data) ]_vars

\* A generator asked for batches of 2 has finished over 3 records: a full
\* batch, then a partial one, then the end
C7_Witness ==
    /\ gen.st = "done"
    /\ gen.arg = IntV(2)
    /\ Len(gen.records) = 3
    /\ Len(gen.out) = 2
    /\ dop.op = "next"

\* C8: the snapshot is taken when the first batch is asked for, from the
\* directory as it is then, and not when iterator() is called; once taken,
\* add_record and delete change neither the snapshot nor the batches still
\* to come.
C8_SnapshotAtFirstBatch ==
    [][ /\ (gen.st = "created" /\ gen'.st = "created" /\ gen'.arg = gen.arg)
              => gen'.records = <<>>
        /\ (gen.st = "created" /\ gen'.st \in {"suspended", "done"})
              => /\ gen'.records = ValuesOf(data)
                 /\ gen'.st = "suspended" =>
                       gen'.out = <<SubSeq(ValuesOf(data), 1, Len(gen'.out[1]))>>
        /\ (gen.st = "suspended" /\ gen'.st \in {"suspended", "done"})
              => /\ gen'.records = gen.records
                 /\ gen'.batch_size = gen.batch_size
                 /\ \/ gen'.out = gen.out
                    \/ \E k \in 1..Len(gen.records) :
                          /\ gen'.out = Append(gen.out, SubSeq(gen.records, gen'.i + 1, k))
                          /\ Concat(gen'.out) = SubSeq(gen.records, 1, k) ]_vars

\* A later batch has just been handed out although the directory was changed
\* after the first batch
C8_Witness ==
    /\ dop.op = "next"
    /\ gen.st = "suspended"
    /\ Len(gen.out) >= 2
    /\ gen.records # ValuesOf(data)
    /\ Concat(gen.out) = SubSeq(gen.records, 1, Len(Concat(gen.out)))

-----------------------------------------------------------------------------
(* Initial state and specifications *)

InitPhone ==
    /\ field = [i \in 1..NumFields |-> NoObject]
    /\ pop = [op |-> "none", obj |-> 0, arg |-> None, err |-> "none"]

InitRest ==
    /\ phones = <<>>
    /\ rop = NoCall
    /\ birthday = NoDate
    /\ bop = NoBCall
    /\ data = <<>>
    /\ rpp = DefaultRecordsPerPage
    /\ file = NoFile
    /\ fresh = NoBook
    /\ dop = NoDCall
    /\ gen = NoGen

Init == InitPhone /\ InitRest

NextPhone ==
    \/ \E i \in 1..NumFields, v \in AssignPool : PhoneInit(i, v)
    \/ \E i \in 1..NumFields, v \in AssignPool : PhoneAssign(i, v)

SpecPhone == Init /\ [][NextPhone]_vars

NextRecord ==
    \/ \E ps \in InitLists : RecordNew(ps)
    \/ \E p \in NumberPool : AddPhone(p)
    \/ \E p \in NumberPool : RemovePhone(p)
    \/ \E o \in NumberPool, n \in NumberPool : EditPhone(o, n)
    \/ \E p \in NumberPool : FindPhone(p)

SpecRecord == Init /\ [][NextRecord]_vars

NextBirthday ==
    \/ \E txt \in BirthdayTexts : SetBirthday(txt)
    \/ \E now \in Todays : DaysToBirthday(now)

SpecBirthday == Init /\ [][NextBirthday]_vars

NextDir ==
    \/ \E id \in RecordIds : AddRecord(id)
    \/ \E name \in Names : Find(name)
    \/ \E name \in Names : Delete(name)
    \/ \E term \in Terms : Search(term)
    \/ SaveToFile
    \/ LoadFromFile
    \/ LoadFresh

SpecDir == Init /\ [][NextDir]_vars

NextPage ==
    \/ \E id \in RecordIds : AddRecord(id)
    \/ \E name \in Names : Delete(name)
    \/ \E arg \in BatchArgs : Iterator(arg)
    \/ NextBatch

SpecPage == Init /\ [][NextPage]_vars

====
